---- MODULE Spec2Model ----
(***************************************************************************)
(* Model of the proposal generator (src/legacy/proposal/generator.py) and  *)
(* of the upload service in front of it (src/legacy/app.py).               *)
(*                                                                         *)
(* Conventions                                                             *)
(*  - a Python str is a sequence of one-character strings;                 *)
(*  - a font size is an integer number of quarter points (10 pt = 40), so  *)
(*    that the 0.5 pt step of _fit_text is 2 and sizes between two steps   *)
(*    exist;                                                               *)
(*  - a width is an integer number of 1/4000 pt: reportlab measures a      *)
(*    string as (sum of the glyph widths) / 1000 * size, which is          *)
(*    (sum of the glyph widths) * (quarter points) in these units.         *)
(***************************************************************************)
EXTENDS Integers, Sequences, FiniteSets, TLC

VARIABLES
    \* ---- _fit_text (generator.py 257-285): one call
    value,          \* the text to fit
    font,           \* the font name
    size,           \* the configured size (quarter points)
    max_width,      \* the configured width (1/4000 pt); 0 is "not configured"
    min_size,       \* the configured minimum size (quarter points)
    fit_pc,         \* "call" | "returned" | "off"
    fit_result,     \* [text, size]: what the call returned
    \* ---- _format_currency (generator.py 139-144) on one amount
    cur_amount,     \* [neg, whole, frac]: (-1)^neg * (whole + frac/1000)
    cur_i,          \* the next representation to format
    cur_out,        \* representation -> the outcome of _format_currency
    \* ---- _build_field_values (generator.py 81-98) and _read_excel_values
    \*      (generator.py 101-119): one call
    field_specs,    \* mapping_config["fields"]: a sequence of [sheet, cell, format]
    cell_value,     \* the value of Sheet1!B1 in the workbook
    wb_open,        \* the workbook returned by load_workbook is open
    fld_pc,         \* "off" | "open" | "read" | "format" | "done" |
                    \* "read_raised" | "format_raised"
    fld_i,          \* the position of the running loop in field_specs
    raw_values,     \* values, field by field
    formatted,      \* formatted, field by field
    \* ---- generate_proposal_pdf (generator.py 20-73): one call
    coords_config,  \* page number -> the entry of "page_<n>" (Absent: no key)
    field_values,   \* field name -> formatted string
    num_pages,      \* len(reader.pages)
    page_index,     \* the page the loop is at (1-based)
    writer_pages,   \* the pages of the PdfWriter, in order
    gen_pc,         \* "off" | "derive" | "loop" | "write" | "done" | "raised"
    \* ---- the /generate handler (app.py 34-114): one request
    app_pc,         \* "off" | "save" | "download" | "reading" | "generate" |
                    \* "done"
    app_input,      \* the input of the last _save_upload_or_url call (1..4)
    app_upload,     \* file_storage.filename of that call ("" when no file)
    app_url,        \* url_value of that call
    paths,          \* input -> the suffix of its path, Unset before the call
    status,         \* the status of the response, 0 before it
    generate_called,\* generate_proposal_pdf was called
    dl_declared,    \* Content-Length of the open download, -1 when absent
    dl_total,       \* total of _download_url
    dl_written      \* bytes written to dest_path by _download_url

fitVars == <<value, font, size, max_width, min_size, fit_pc, fit_result>>

curVars == <<cur_amount, cur_i, cur_out>>

fldVars == <<field_specs, cell_value, wb_open, fld_pc, fld_i, raw_values, formatted>>

genVars == <<coords_config, field_values, num_pages, page_index, writer_pages, gen_pc>>

appVars ==
    <<app_pc, app_input, app_upload, app_url, paths, status, generate_called,
      dl_declared, dl_total, dl_written>>

vars == <<fitVars, curVars, fldVars, genVars, appVars>>

\* what the actions of one component leave alone
notFit == <<curVars, fldVars, genVars, appVars>>

notCur == <<fitVars, fldVars, genVars, appVars>>

notFld == <<fitVars, curVars, genVars, appVars>>

notGen == <<fitVars, curVars, fldVars, appVars>>

notApp == <<fitVars, curVars, fldVars, genVars>>

(***************************************************************************)
(* Bounds                                                                  *)
(***************************************************************************)
MaxLen == 3          \* longest text handed to _fit_text
MaxSize == 6         \* largest size and min_size, in quarter points
MaxWidthSteps == 6   \* max_width ranges over 600, 1200, ... (1/4000 pt)
MaxWhole == 12       \* the whole dollars 0..MaxWhole (and BigWholes)
MaxFields == 2       \* fields in the mapping config
MaxPages == 3        \* pages of the template PDF
\* The download cap and the size of one read, in units of 512 KiB: the cap
\* is the configuration MAX_DOWNLOAD_MB = 2, one read is 1024 * 1024 bytes.
MAX_DOWNLOAD_BYTES == 4
ReadSize == 2

(***************************************************************************)
(* Text measurement                                                        *)
(***************************************************************************)
Chars == {"W", "i", " "}

Fonts == {"Helvetica", "Courier"}

\* The glyph widths of the standard fonts, per 1000 units of font size.
glyphWidth(f, c) ==
    IF f = "Courier" THEN 600
    ELSE CASE c = "W" -> 944
           [] c = "i" -> 222
           [] c = " " -> 278
           [] c = "." -> 278
           [] OTHER   -> 556

RECURSIVE glyphSum(_, _)
glyphSum(f, s) ==
    IF s = <<>> THEN 0 ELSE glyphWidth(f, Head(s)) + glyphSum(f, Tail(s))

\* pdfmetrics.stringWidth(text, font, size)
stringWidth(s, f, q) == glyphSum(f, s) * q

\* str.rstrip(): drop the trailing whitespace
RECURSIVE rstrip(_)
rstrip(s) ==
    IF s = <<>> THEN s
    ELSE IF s[Len(s)] = " " THEN rstrip(SubSeq(s, 1, Len(s) - 1))
    ELSE s

ellipsis == <<".", ".", ".">>

(***************************************************************************)
(* _fit_text                                                               *)
(***************************************************************************)
\* while current >= min_size: return on the first size that fits, else
\* current -= 0.5.  FALSE when the loop ends without returning.
RECURSIVE ShrinkLoop(_, _, _, _, _)
ShrinkLoop(v, f, current, mw, mn) ==
    IF current >= mn
    THEN IF stringWidth(v, f, current) <= mw
         THEN [found |-> TRUE, size |-> current]
         ELSE ShrinkLoop(v, f, current - 2, mw, mn)
    ELSE [found |-> FALSE, size |-> current]

\* (mutant of TruncLoop: the first candidate is returned unmeasured)
TruncLoopUnmeasured(v, f, length, mw, mn) ==
    rstrip(SubSeq(v, 1, length)) \o ellipsis

\* for length in range(len(value), 0, -1): the first prefix whose
\* rstrip()+"..." fits at min_size; the bare ellipsis when none does.
RECURSIVE TruncLoop(_, _, _, _, _)
TruncLoop(v, f, length, mw, mn) ==
    IF length <= 0 THEN ellipsis
    ELSE LET candidate == rstrip(SubSeq(v, 1, length)) \o ellipsis
         IN  IF stringWidth(candidate, f, mn) <= mw
             THEN candidate
             ELSE TruncLoop(v, f, length - 1, mw, mn)

_fit_text(v, f, sz, mw, mn) ==
    IF v = <<>> THEN [text |-> v, size |-> sz]
    ELSE IF mw = 0 THEN [text |-> v, size |-> sz]
    ELSE LET shrunk == ShrinkLoop(v, f, sz, mw, mn)
         IN  IF shrunk.found THEN [text |-> v, size |-> shrunk.size]
             ELSE IF stringWidth(ellipsis, f, mn) > mw
                  THEN [text |-> ellipsis, size |-> mn]
                  ELSE [text |-> TruncLoop(v, f, Len(v), mw, mn), size |-> mn]

(***************************************************************************)
(* Python values and strings                                               *)
(*                                                                         *)
(* A raw cell value is a tagged record:                                    *)
(*   [t |-> "none"]                                                        *)
(*   [t |-> "int",   neg, n]             the int  (-1)^neg * n             *)
(*   [t |-> "bool",  b]                                                    *)
(*   [t |-> "float", k, neg, m]          k = "finite": the double whose    *)
(*                                       shortest repr is (-1)^neg*m/1000; *)
(*                                       k = "inf" | "nan"                 *)
(*   [t |-> "str",   s]                                                    *)
(*   [t |-> "date", y, mo, d]   [t |-> "datetime", y, mo, d]  (midnight)   *)
(***************************************************************************)
Digits == <<"0", "1", "2", "3", "4", "5", "6", "7", "8", "9">>

IsDigit(c) == \E i \in 1..10 : Digits[i] = c

DigitVal(c) == (CHOOSE i \in 1..10 : Digits[i] = c) - 1

AllDigits(s) == \A i \in 1..Len(s) : IsDigit(s[i])

\* int("<digits>")
RECURSIVE ToInt(_)
ToInt(s) ==
    IF s = <<>> THEN 0
    ELSE 10 * ToInt(SubSeq(s, 1, Len(s) - 1)) + DigitVal(s[Len(s)])

\* str(n) for n >= 0
RECURSIVE NatStr(_)
NatStr(n) ==
    IF n < 10 THEN <<Digits[n + 1]>>
    ELSE NatStr(n \div 10) \o <<Digits[(n % 10) + 1]>>

\* n zero-padded on the left to at least w digits ("%0wd")
RECURSIVE ZeroPad(_, _)
ZeroPad(s, w) == IF Len(s) >= w THEN s ELSE ZeroPad(<<"0">> \o s, w)

RECURSIVE Pow10(_)
Pow10(k) == IF k <= 0 THEN 1 ELSE 10 * Pow10(k - 1)

IsSpace(c) == c = " "

RECURSIVE lstrip(_)
lstrip(s) ==
    IF s = <<>> THEN s
    ELSE IF IsSpace(s[1]) THEN lstrip(Tail(s))
    ELSE s

\* str.strip()
strip(s) == lstrip(rstrip(s))

\* str.replace(c, "")
RECURSIVE removeChar(_, _)
removeChar(s, c) ==
    IF s = <<>> THEN s
    ELSE IF Head(s) = c THEN removeChar(Tail(s), c)
    ELSE <<Head(s)>> \o removeChar(Tail(s), c)

\* str.lower(), one character
lowerChar(c) ==
    CASE c = "I" -> "i" [] c = "N" -> "n" [] c = "F" -> "f" [] c = "E" -> "e"
      [] c = "A" -> "a" [] c = "S" -> "s" [] c = "T" -> "t" [] c = "Y" -> "y"
      [] c = "X" -> "x" [] c = "L" -> "l" [] c = "P" -> "p" [] c = "D" -> "d"
      [] c = "J" -> "j" [] c = "O" -> "o" [] c = "H" -> "h" [] OTHER -> c

lower(s) == [i \in 1..Len(s) |-> lowerChar(s[i])]

\* the index of the first element of s in the set cs, 0 when there is none
RECURSIVE findFrom(_, _, _)
findFrom(s, cs, i) ==
    IF i > Len(s) THEN 0
    ELSE IF s[i] \in cs THEN i
    ELSE findFrom(s, cs, i + 1)

find(s, cs) == findFrom(s, cs, 1)

\* the fraction digits of repr(float): thousandths without trailing zeros,
\* at least one digit
fracRepr(f) ==
    IF f % 1000 = 0 THEN <<"0">>
    ELSE IF f % 100 = 0 THEN NatStr(f \div 100)
    ELSE IF f % 10 = 0 THEN ZeroPad(NatStr(f \div 10), 2)
    ELSE ZeroPad(NatStr(f), 3)

signStr(neg) == IF neg THEN <<"-">> ELSE <<>>

dateStr(x) ==
    ZeroPad(NatStr(x.y), 4) \o <<"-">> \o ZeroPad(NatStr(x.mo), 2)
        \o <<"-">> \o ZeroPad(NatStr(x.d), 2)

\* str(value)
pyStr(x) ==
    CASE x.t = "int"   -> signStr(x.neg) \o NatStr(x.n)
      [] x.t = "bool"  -> IF x.b THEN <<"T", "r", "u", "e">>
                          ELSE <<"F", "a", "l", "s", "e">>
      [] x.t = "float" ->
            IF x.k = "inf" THEN signStr(x.neg) \o <<"i", "n", "f">>
            ELSE IF x.k = "nan" THEN <<"n", "a", "n">>
            ELSE signStr(x.neg) \o NatStr(x.m \div 1000) \o <<".">>
                     \o fracRepr(x.m % 1000)
      [] x.t = "str"   -> x.s
      [] x.t = "date"  -> dateStr(x)
      [] x.t = "datetime" ->
            dateStr(x) \o <<" ", "0", "0", ":", "0", "0", ":", "0", "0">>
      [] OTHER -> <<"N", "o", "n", "e">>

(***************************************************************************)
(* decimal.Decimal: [k, neg, coef, exp] with k = "finite" | "inf" | "nan"  *)
(* | "snan"; the value of a finite one is (-1)^neg * coef * 10^exp.        *)
(***************************************************************************)
\* The precision of the default decimal context.
DecimalPrec == 28

Dec(k, neg, coef, exp) == [k |-> k, neg |-> neg, coef |-> coef, exp |-> exp]

\* The unsigned numeric string: digits [. digits] [e [sign] digits]
ParseNumeric(neg, s) ==
    LET ePos  == find(s, {"e", "E"})
        mant  == IF ePos = 0 THEN s ELSE SubSeq(s, 1, ePos - 1)
        expS  == IF ePos = 0 THEN <<>> ELSE SubSeq(s, ePos + 1, Len(s))
        eNeg  == expS # <<>> /\ Head(expS) = "-"
        eDig  == IF expS # <<>> /\ Head(expS) \in {"+", "-"}
                 THEN Tail(expS) ELSE expS
        dot   == find(mant, {"."})
        intP  == IF dot = 0 THEN mant ELSE SubSeq(mant, 1, dot - 1)
        fracP == IF dot = 0 THEN <<>> ELSE SubSeq(mant, dot + 1, Len(mant))
        ok    == /\ AllDigits(intP) /\ AllDigits(fracP)
                 /\ Len(intP) + Len(fracP) > 0
                 /\ (ePos # 0 => (eDig # <<>> /\ AllDigits(eDig)))
        e     == IF eNeg THEN 0 - ToInt(eDig) ELSE ToInt(eDig)
    IN  IF ok
        THEN [ok |-> TRUE,
              dec |-> Dec("finite", neg, ToInt(intP \o fracP), e - Len(fracP))]
        ELSE [ok |-> FALSE, dec |-> Dec("nan", FALSE, 0, 0)]

\* Decimal(s): [ok |-> FALSE] is decimal.InvalidOperation (ConversionSyntax).
ParseDecimal(s) ==
    LET t    == strip(s)
        neg  == t # <<>> /\ Head(t) = "-"
        body == IF t # <<>> /\ Head(t) \in {"+", "-"} THEN Tail(t) ELSE t
        low  == lower(body)
    IN  IF low = <<"i", "n", "f">>
           \/ low = <<"i", "n", "f", "i", "n", "i", "t", "y">>
        THEN [ok |-> TRUE, dec |-> Dec("inf", neg, 0, 0)]
        ELSE IF low = <<"n", "a", "n">>
        THEN [ok |-> TRUE, dec |-> Dec("nan", neg, 0, 0)]
        ELSE IF low = <<"s", "n", "a", "n">>
        THEN [ok |-> TRUE, dec |-> Dec("snan", neg, 0, 0)]
        ELSE ParseNumeric(neg, body)

\* (mutant of RoundHalfUp: ROUND_HALF_EVEN, the rounding of round())
RoundHalfEven(coef, shift) ==
    LET p == Pow10(shift)
        q == coef \div p
        r == coef % p
    IN  IF 2 * r > p \/ (2 * r = p /\ q % 2 = 1) THEN q + 1 ELSE q

\* coef / 10^shift rounded ROUND_HALF_UP (ties away from zero), shift > 0
RoundHalfUp(coef, shift) ==
    LET p == Pow10(shift)
        q == coef \div p
        r == coef % p
    IN  IF 2 * r >= p THEN q + 1 ELSE q

\* number.quantize(Decimal("0.01"), rounding=ROUND_HALF_UP):
\* [ok |-> FALSE] is decimal.InvalidOperation.
quantize(d) ==
    IF d.k = "nan" THEN [ok |-> TRUE, dec |-> d]
    ELSE IF d.k \in {"inf", "snan"} THEN [ok |-> FALSE, dec |-> d]
    ELSE IF d.coef = 0 THEN [ok |-> TRUE, dec |-> Dec("finite", d.neg, 0, -2)]
    ELSE IF Len(NatStr(d.coef)) + d.exp + 2 > DecimalPrec
    THEN [ok |-> FALSE, dec |-> d]
    ELSE IF d.exp >= -2
    THEN [ok |-> TRUE,
          dec |-> Dec("finite", d.neg, d.coef * Pow10(d.exp + 2), -2)]
    ELSE [ok |-> TRUE,
          dec |-> Dec("finite", d.neg, RoundHalfUp(d.coef, -2 - d.exp), -2)]

\* (mutant of groupThousands: no separators)
groupNone(ds) == ds

\* the "," of the format specification: a comma before every group of three
\* digits, counted from the right
RECURSIVE groupThousands(_)
groupThousands(ds) ==
    IF Len(ds) <= 3 THEN ds
    ELSE groupThousands(SubSeq(ds, 1, Len(ds) - 3)) \o <<",">>
             \o SubSeq(ds, Len(ds) - 2, Len(ds))

\* f"{number:,.2f}" of a Decimal quantized to two places
formatDecimal(d) ==
    IF d.k = "nan" THEN signStr(d.neg) \o <<"N", "a", "N">>
    ELSE signStr(d.neg) \o groupThousands(NatStr(d.coef \div 100))
             \o <<".">> \o ZeroPad(NatStr(d.coef % 100), 2)

\* _normalize_number: [raised, none, dec]; raised is an uncaught
\* decimal.InvalidOperation, none is the return value None.
_normalize_number(x) ==
    LET none   == [raised |-> FALSE, none |-> TRUE, dec |-> Dec("nan", FALSE, 0, 0)]
        raised == [raised |-> TRUE, none |-> FALSE, dec |-> Dec("nan", FALSE, 0, 0)]
        some(d) == [raised |-> FALSE, none |-> FALSE, dec |-> d]
    IN  IF x.t = "none" THEN none
        ELSE IF x.t \in {"int", "float", "bool"}
        THEN LET p == ParseDecimal(pyStr(x))
             IN  IF p.ok THEN some(p.dec) ELSE raised
        ELSE IF x.t = "str"
        THEN LET cleaned == strip(removeChar(removeChar(x.s, "$"), ","))
                 p == ParseDecimal(cleaned)
             IN  IF cleaned = <<>> THEN none
                 ELSE IF p.ok THEN some(p.dec) ELSE none
        ELSE none

\* A formatter's outcome: the string it returns, or the exception it raises.
Returned(s) == [raised |-> FALSE, s |-> s]

Raised == [raised |-> TRUE, s |-> <<>>]

_format_currency(x, missing_value) ==
    LET number == _normalize_number(x)
        q == quantize(number.dec)
    IN  IF number.raised THEN Raised
        ELSE IF number.none THEN Returned(missing_value)
        ELSE IF ~q.ok THEN Raised
        ELSE Returned(<<"$">> \o formatDecimal(q.dec))

(***************************************************************************)
(* Dates: [y, mo, d].  A formatted date is a sequence whose first element  *)
(* is the month name, the other elements single characters.                *)
(***************************************************************************)
IsLeap(y) == (y % 4 = 0 /\ y % 100 # 0) \/ y % 400 = 0

DaysInMonth(y, mo) ==
    IF mo = 2 THEN (IF IsLeap(y) THEN 29 ELSE 28)
    ELSE IF mo \in {4, 6, 9, 11} THEN 30 ELSE 31

MonthNames ==
    <<"January", "February", "March", "April", "May", "June", "July",
      "August", "September", "October", "November", "December">>

MonthNamesUpper ==
    <<"JANUARY", "FEBRUARY", "MARCH", "APRIL", "MAY", "JUNE", "JULY",
      "AUGUST", "SEPTEMBER", "OCTOBER", "NOVEMBER", "DECEMBER">>

\* str.split(sep)
RECURSIVE splitOn(_, _)
splitOn(s, sep) ==
    LET i == find(s, {sep})
    IN  IF i = 0 THEN <<s>>
        ELSE <<SubSeq(s, 1, i - 1)>> \o splitOn(SubSeq(s, i + 1, Len(s)), sep)

NoDate == [none |-> TRUE, date |-> [y |-> 0, mo |-> 0, d |-> 0]]

SomeDate(y, mo, d) == [none |-> FALSE, date |-> [y |-> y, mo |-> mo, d |-> d]]

\* the directives of strptime: %Y is four digits, %y two (69-99 are 19xx),
\* %m and %d one or two digits in 1..12 and 1..31
yearOf(f, p) ==
    IF f = "Y" THEN ToInt(p)
    ELSE IF ToInt(p) < 69 THEN 2000 + ToInt(p) ELSE 1900 + ToInt(p)

\* datetime.strptime(s, fmt).date() for the three formats of _parse_date,
\* fmt given as its separator and the places of year, month and day;
\* none is ValueError.
strptime(s, sep, iy, im, id, yf) ==
    LET p == splitOn(s, sep)
    IN  IF /\ Len(p) = 3
           /\ \A i \in 1..3 : p[i] # <<>> /\ AllDigits(p[i])
           /\ Len(p[iy]) = (IF yf = "Y" THEN 4 ELSE 2)
           /\ Len(p[im]) <= 2 /\ Len(p[id]) <= 2
           /\ ToInt(p[im]) \in 1..12
           /\ yearOf(yf, p[iy]) >= 1
           /\ ToInt(p[id]) \in 1..DaysInMonth(yearOf(yf, p[iy]), ToInt(p[im]))
        THEN SomeDate(yearOf(yf, p[iy]), ToInt(p[im]), ToInt(p[id]))
        ELSE NoDate

_parse_date(x) ==
    IF x.t \in {"datetime", "date"} THEN SomeDate(x.y, x.mo, x.d)
    ELSE IF x.t = "str"
    THEN LET cleaned == strip(x.s)
             ymd == strptime(cleaned, "-", 1, 2, 3, "Y")
             mdY == strptime(cleaned, "/", 3, 1, 2, "Y")
             mdy == strptime(cleaned, "/", 3, 1, 2, "y")
         IN  IF cleaned = <<>> THEN NoDate
             ELSE IF ~ymd.none THEN ymd
             ELSE IF ~mdY.none THEN mdY
             ELSE mdy
    ELSE NoDate

_format_date_cover(x, missing_value) ==
    LET parsed == _parse_date(x)
    IN  IF parsed.none THEN Returned(missing_value)
        ELSE Returned(<<MonthNamesUpper[parsed.date.mo], " ">>
                 \o ZeroPad(NatStr(parsed.date.d), 2) \o <<",", " ">>
                 \o NatStr(parsed.date.y))

_format_date_plan(x, missing_value) ==
    LET parsed == _parse_date(x)
    IN  IF parsed.none THEN Returned(missing_value)
        ELSE Returned(<<MonthNames[parsed.date.mo], " ">>
                 \o NatStr(parsed.date.d) \o <<",", " ">>
                 \o NatStr(parsed.date.y))

\* prepared_by_map.get(initials, initials) with the map {"JD": "Jane Doe"}
prepared_by_map(initials) ==
    IF initials = <<"J", "D">>
    THEN <<"J", "a", "n", "e", " ", "D", "o", "e">>
    ELSE initials

_format_initials(x, missing_value) ==
    IF x.t = "none" THEN Returned(missing_value)
    ELSE LET initials == strip(pyStr(x))
         IN  IF initials = <<>> THEN Returned(missing_value)
             ELSE Returned(prepared_by_map(initials))

_format_text(x, missing_value) ==
    IF x.t = "none" THEN Returned(missing_value)
    ELSE LET text == strip(pyStr(x))
         IN  IF text = <<>> THEN Returned(missing_value) ELSE Returned(text)

_format_value(x, fmt, missing_value) ==
    IF fmt = "currency" THEN _format_currency(x, missing_value)
    ELSE IF fmt = "date_cover" THEN _format_date_cover(x, missing_value)
    ELSE IF fmt = "date_plan" THEN _format_date_plan(x, missing_value)
    ELSE IF fmt = "initials" THEN _format_initials(x, missing_value)
    ELSE _format_text(x, missing_value)

(***************************************************************************)
(* Specification of one _fit_text call                                     *)
(***************************************************************************)
Texts == UNION {[1..n -> Chars] : n \in 0..MaxLen}

Sizes == 1..MaxSize

Widths == {600 * k : k \in 0..MaxWidthSteps}

NoResult == [text |-> <<>>, size |-> 0]

FitInit ==
    /\ value \in Texts
    /\ font \in Fonts
    /\ size \in Sizes
    /\ max_width \in Widths
    /\ min_size \in Sizes
    /\ fit_pc = "call"
    /\ fit_result = NoResult

FitText ==
    /\ fit_pc = "call"
    /\ fit_result' = _fit_text(value, font, size, max_width, min_size)
    /\ fit_pc' = "returned"
    /\ UNCHANGED <<value, font, size, max_width, min_size>>
    /\ UNCHANGED notFit

FitOff ==
    /\ value = <<>> /\ font = "Helvetica" /\ size = 1 /\ max_width = 0
    /\ min_size = 1 /\ fit_pc = "off" /\ fit_result = NoResult

(***************************************************************************)
(* Specification of _format_currency on the representations of an amount   *)
(***************************************************************************)
MissingValue == <<"N", "/", "A">>

BigWholes == {999, 1000, 1234, 99999, 999999, 1234567}

Amounts ==
    {a \in [neg : BOOLEAN, whole : (0..MaxWhole) \cup BigWholes, frac : 0..999] :
        a.neg => (a.whole # 0 \/ a.frac # 0)}

Representations == <<"numeric", "float", "plain", "decorated">>

Pending == [raised |-> FALSE, s |-> <<"?">>]

\* the group separators of a decorated amount
RECURSIVE withCommas(_)
withCommas(n) ==
    IF n < 1000 THEN NatStr(n)
    ELSE withCommas(n \div 1000) \o <<",">> \o ZeroPad(NatStr(n % 1000), 3)

\* two fraction digits, three when the amount has thousandths
fracDigits(a) ==
    IF a.frac % 10 = 0 THEN ZeroPad(NatStr(a.frac \div 10), 2)
    ELSE ZeroPad(NatStr(a.frac), 3)

\* The cell value that holds amount a in representation r: the number
\* (an int when whole, else a float), the float, the plain decimal string
\* ("1234.50"), the decorated string ("$1,234.50").
Representation(r, a) ==
    LET asFloat == [t |-> "float", k |-> "finite", neg |-> a.neg,
                    m |-> 1000 * a.whole + a.frac]
    IN  CASE r = "numeric" ->
                IF a.frac = 0 THEN [t |-> "int", neg |-> a.neg, n |-> a.whole]
                ELSE asFloat
          [] r = "float" -> asFloat
          [] r = "plain" ->
                [t |-> "str",
                 s |-> signStr(a.neg) \o NatStr(a.whole) \o <<".">> \o fracDigits(a)]
          [] OTHER ->
                [t |-> "str",
                 s |-> signStr(a.neg) \o <<"$">> \o withCommas(a.whole)
                          \o <<".">> \o fracDigits(a)]

CurInit ==
    /\ cur_amount \in Amounts
    /\ cur_i = 1
    /\ cur_out = [r \in {Representations[i] : i \in 1..Len(Representations)} |-> Pending]

FormatCurrency ==
    /\ cur_i \in 1..Len(Representations)
    /\ cur_out' = [cur_out EXCEPT ![Representations[cur_i]] =
                      _format_currency(Representation(Representations[cur_i], cur_amount),
                                       MissingValue)]
    /\ cur_i' = cur_i + 1
    /\ UNCHANGED cur_amount
    /\ UNCHANGED notCur

CurOff ==
    /\ cur_amount = [neg |-> FALSE, whole |-> 0, frac |-> 0]
    /\ cur_i = 0
    /\ cur_out = <<>>

(***************************************************************************)
(* Specification of _build_field_values on a workbook with one sheet,      *)
(* "Sheet1", whose cell B1 holds cell_value                                *)
(***************************************************************************)
SheetNames == {"Sheet1"}

\* spec.get("sheet"), spec.get("cell"): "" is an absent or empty entry;
\* "!!" is a cell reference the worksheet rejects
SpecSheets == {"", "Sheet1", "Nope"}

SpecCells == {"", "B1", "!!"}

SpecFormats ==
    {"", "text", "currency", "date_cover", "date_plan", "initials", "bogus"}

FieldSpecs == [sheet : SpecSheets, cell : SpecCells, format : SpecFormats]

None == [t |-> "none"]

Str(s) == [t |-> "str", s |-> s]

RawValues ==
    { None,
      [t |-> "int", neg |-> FALSE, n |-> 500],
      [t |-> "int", neg |-> TRUE, n |-> 1234567],
      [t |-> "bool", b |-> TRUE],
      [t |-> "float", k |-> "finite", neg |-> FALSE, m |-> 2005],
      [t |-> "float", k |-> "inf", neg |-> FALSE, m |-> 0],
      [t |-> "float", k |-> "nan", neg |-> FALSE, m |-> 0],
      Str(<<"$", "1", ",", "2", "3", "4", ".", "5", "0">>),
      Str(<<"n", "/", "a">>),
      Str(<<" ", " ">>),
      Str(<<"I", "n", "f", "i", "n", "i", "t", "y">>),
      Str(<<"N", "a", "N">>),
      Str(<<"1", "e", "3", "0">>),
      Str(<<" ", "J", "D", " ">>),
      Str(<<"2", "0", "2", "4", "-", "0", "3", "-", "0", "5">>),
      Str(<<"0", "3", "/", "0", "5", "/", "2", "4">>),
      Str(<<"0", "2", "/", "3", "0", "/", "2", "0", "2", "4">>),
      [t |-> "date", y |-> 2024, mo |-> 3, d |-> 5],
      [t |-> "datetime", y |-> 2024, mo |-> 3, d |-> 5] }

\* workbook[sheet_name][cell].value: raised is the exception of a cell
\* reference that names no single cell
cellLookup(sheet, cell, b1) ==
    IF cell = "B1" THEN [raised |-> FALSE, v |-> b1]
    ELSE [raised |-> TRUE, v |-> None]

\* spec.get("format", "text")
formatOf(spec) == IF spec.format = "" THEN "text" ELSE spec.format

FldInit ==
    /\ field_specs \in UNION {[1..n -> FieldSpecs] : n \in 1..MaxFields}
    /\ cell_value \in RawValues
    /\ wb_open = FALSE
    /\ fld_pc = "open"
    /\ fld_i = 1
    /\ raw_values = <<>>
    /\ formatted = <<>>

\* workbook = load_workbook(...); values = {}
LoadWorkbook ==
    /\ fld_pc = "open"
    /\ wb_open' = TRUE
    /\ fld_pc' = "read"
    /\ UNCHANGED <<field_specs, cell_value, fld_i, raw_values, formatted>>
    /\ UNCHANGED notFld

\* one iteration of the loop of _read_excel_values
ReadField ==
    /\ fld_pc = "read"
    /\ fld_i <= Len(field_specs)
    /\ LET spec == field_specs[fld_i]
           got == cellLookup(spec.sheet, spec.cell, cell_value)
       IN  IF spec.sheet = "" \/ spec.cell = ""
           THEN /\ raw_values' = Append(raw_values, None)
                /\ fld_i' = fld_i + 1
                /\ fld_pc' = fld_pc
           ELSE IF spec.sheet \notin SheetNames
           THEN /\ raw_values' = Append(raw_values, None)
                /\ fld_i' = fld_i + 1
                /\ fld_pc' = fld_pc
           ELSE IF got.raised
           THEN /\ fld_pc' = "read_raised"
                /\ UNCHANGED <<raw_values, fld_i>>
           ELSE /\ raw_values' = Append(raw_values, got.v)
                /\ fld_i' = fld_i + 1
                /\ fld_pc' = fld_pc
    /\ UNCHANGED <<field_specs, cell_value, wb_open, formatted>>
    /\ UNCHANGED notFld

\* workbook.close(); return values
CloseWorkbook ==
    /\ fld_pc = "read"
    /\ fld_i > Len(field_specs)
    /\ wb_open' = FALSE
    /\ fld_pc' = "format"
    /\ fld_i' = 1
    /\ UNCHANGED <<field_specs, cell_value, raw_values, formatted>>
    /\ UNCHANGED notFld

\* one iteration of the loop of _build_field_values
FormatField ==
    /\ fld_pc = "format"
    /\ fld_i <= Len(field_specs)
    /\ LET r == _format_value(raw_values[fld_i], formatOf(field_specs[fld_i]),
                              MissingValue)
       IN  IF r.raised
           THEN /\ fld_pc' = "format_raised"
                /\ UNCHANGED <<formatted, fld_i>>
           ELSE /\ formatted' = Append(formatted, r.s)
                /\ fld_i' = fld_i + 1
                /\ fld_pc' = fld_pc
    /\ UNCHANGED <<field_specs, cell_value, wb_open, raw_values>>
    /\ UNCHANGED notFld

\* return formatted
ReturnFormatted ==
    /\ fld_pc = "format"
    /\ fld_i > Len(field_specs)
    /\ fld_pc' = "done"
    /\ UNCHANGED <<field_specs, cell_value, wb_open, fld_i, raw_values, formatted>>
    /\ UNCHANGED notFld

FldOff ==
    /\ field_specs = <<>> /\ cell_value = None /\ wb_open = FALSE
    /\ fld_pc = "off" /\ fld_i = 0 /\ raw_values = <<>> /\ formatted = <<>>

(***************************************************************************)
(* Specification of generate_proposal_pdf from the loaded configuration    *)
(* and the built field values on                                           *)
(***************************************************************************)
FieldNames == {"total", "plan_set_date"}

\* A placement spec of the coordinates config.  max_width 0 is "no
\* max_width"; "NoSuchFont" is a font reportlab does not know.
Placement(name, f, mw, a) ==
    [field |-> name, font |-> f, size |-> 4, max_width |-> mw, min_size |-> 2,
     align |-> a]

\* coords_config.get("page_<n>"): Absent when the key is missing, else the
\* fields of the page in the order of the JSON object
Absent == [present |-> FALSE, fields |-> <<>>]

Entry(fields) == [present |-> TRUE, fields |-> fields]

PageEntries ==
    { Absent,
      Entry(<<>>),
      Entry(<<Placement("total", "Helvetica", 0, "left")>>),
      Entry(<<Placement("plan_set_date_line", "Helvetica", 3600, "right"),
              Placement("client", "Courier", 0, "center")>>),
      Entry(<<Placement("total", "NoSuchFont", 0, "left")>>) }

EstimatePrefix ==
    <<"E", "s", "t", "i", "m", "a", "t", "e", " ", "b", "a",
        "s", "e", "d", " ", "o", "n", " ", "p", "l", "a", "n", " ",
        "s", "e", "t", " ", "d", "a", "t", "e", "d", ":", " ">>

\* field_values.get(name): <<>> stands for both None and ""
fieldValue(fv, name) == IF name \in DOMAIN fv THEN fv[name] ELSE <<>>

\* A page of the writer: template page `page`, with the strings of the
\* overlay merged onto it when one was.
Unmerged(k) == [page |-> k, merged |-> FALSE, drawn |-> <<>>]

Merged(k, drawn) == [page |-> k, merged |-> TRUE, drawn |-> drawn]

\* _build_overlay: the strings drawn, in order, each [field, text, size,
\* align]; raised when a drawn field names an unknown font (KeyError).
RECURSIVE drawFields(_, _)
drawFields(page_fields, fv) ==
    IF page_fields = <<>> THEN [raised |-> FALSE, drawn |-> <<>>]
    ELSE LET spec == Head(page_fields)
             v    == fieldValue(fv, spec.field)
             rest == drawFields(Tail(page_fields), fv)
             fit  == _fit_text(v, spec.font, spec.size, spec.max_width,
                               spec.min_size)
         IN  IF v = <<>> THEN rest
             ELSE IF spec.font \notin Fonts
             THEN [raised |-> TRUE, drawn |-> <<>>]
             ELSE [raised |-> rest.raised,
                   drawn |-> <<[field |-> spec.field, text |-> fit.text,
                                size |-> fit.size, align |-> spec.align]>>
                             \o rest.drawn]

_build_overlay(page_fields, fv) == drawFields(page_fields, fv)

\* (mutant of pageHasFields: an overlay for every page, as calibrate.py does)
pageHasFieldsAlways(entry) == TRUE

\* "if page_fields:" with page_fields = coords_config.get(page_key)
pageHasFields(entry) == entry.present /\ entry.fields # <<>>

\* (mutant of addPage: the page is put first)
addPageFirst(pages, page) == <<page>> \o pages

\* writer.add_page(page)
addPage(pages, page) == Append(pages, page)

GenInit ==
    /\ num_pages \in 0..MaxPages
    /\ coords_config \in [1..MaxPages -> PageEntries]
    /\ field_values \in
          [FieldNames -> {<<>>, MissingValue, <<"5", "/", "2", "4">>}]
    /\ page_index = 1
    /\ writer_pages = <<>>
    /\ gen_pc = "derive"

\* lines 36-46: the derived field plan_set_date_line; reader and writer
DerivePlanSetDateLine ==
    /\ gen_pc = "derive"
    /\ LET plan_set_date == fieldValue(field_values, "plan_set_date")
           line == IF plan_set_date # <<>> /\ plan_set_date # MissingValue
                   THEN EstimatePrefix \o plan_set_date
                   ELSE MissingValue
       IN  field_values' =
               [n \in DOMAIN field_values \cup {"plan_set_date_line"} |->
                   IF n = "plan_set_date_line" THEN line ELSE field_values[n]]
    /\ gen_pc' = "loop"
    /\ UNCHANGED <<coords_config, num_pages, page_index, writer_pages>>
    /\ UNCHANGED notGen

\* one iteration of the page loop, lines 48-59
ProcessPage ==
    /\ gen_pc = "loop"
    /\ page_index <= num_pages
    /\ LET page_fields == coords_config[page_index]
           overlay == _build_overlay(page_fields.fields, field_values)
       IN  IF pageHasFields(page_fields)
           THEN IF overlay.raised
                THEN /\ gen_pc' = "raised"
                     /\ UNCHANGED <<writer_pages, page_index>>
                ELSE /\ writer_pages' =
                            addPage(writer_pages,
                                    Merged(page_index, overlay.drawn))
                     /\ page_index' = page_index + 1
                     /\ gen_pc' = gen_pc
           ELSE /\ writer_pages' =
                       addPage(writer_pages, Unmerged(page_index))
                /\ page_index' = page_index + 1
                /\ gen_pc' = gen_pc
    /\ UNCHANGED <<coords_config, field_values, num_pages>>
    /\ UNCHANGED notGen

\* the loop ends: lines 61-69
EndPageLoop ==
    /\ gen_pc = "loop"
    /\ page_index > num_pages
    /\ gen_pc' = "write"
    /\ UNCHANGED <<coords_config, field_values, num_pages, page_index, writer_pages>>
    /\ UNCHANGED notGen

\* writer.write(output_file); return
WriteOutput ==
    /\ gen_pc = "write"
    /\ gen_pc' = "done"
    /\ UNCHANGED <<coords_config, field_values, num_pages, page_index, writer_pages>>
    /\ UNCHANGED notGen

GenOff ==
    /\ coords_config = <<>> /\ field_values = <<>> /\ num_pages = 0
    /\ page_index = 0 /\ writer_pages = <<>> /\ gen_pc = "off"

(***************************************************************************)
(* File names and URLs                                                     *)
(***************************************************************************)
\* the last index of c in s, 0 when there is none
RECURSIVE rfind(_, _)
rfind(s, c) ==
    IF s = <<>> THEN 0
    ELSE IF s[Len(s)] = c THEN Len(s)
    ELSE rfind(SubSeq(s, 1, Len(s) - 1), c)

\* PurePath.suffix of a file name: from the last dot, unless the name
\* starts or ends with it
nameSuffix(name) ==
    LET i == rfind(name, ".")
    IN  IF 1 < i /\ i < Len(name) THEN SubSeq(name, i, Len(name)) ELSE <<>>

RECURSIVE rstripChars(_, _)
rstripChars(s, cs) ==
    IF s # <<>> /\ s[Len(s)] \in cs
    THEN rstripChars(SubSeq(s, 1, Len(s) - 1), cs) ELSE s

RECURSIVE lstripChars(_, _)
lstripChars(s, cs) ==
    IF s # <<>> /\ Head(s) \in cs THEN lstripChars(Tail(s), cs) ELSE s

\* Path(text).suffix: the suffix of the last component of the path
pathSuffix(text) ==
    LET trimmed == rstripChars(text, {"/"})
        i == rfind(trimmed, "/")
    IN  nameSuffix(SubSeq(trimmed, i + 1, Len(trimmed)))

\* werkzeug's secure_filename: path separators become spaces, runs of
\* whitespace "_", characters outside [A-Za-z0-9_.-] are dropped, and
\* leading and trailing "." and "_" are stripped
RECURSIVE sanitize(_)
sanitize(s) ==
    IF s = <<>> THEN s
    ELSE LET c == Head(s)
             rest == sanitize(Tail(s))
         IN  IF c \in {"/", " "}
             THEN (IF rest # <<>> /\ Head(rest) = "_" THEN rest
                   ELSE <<"_">> \o rest)
             ELSE IF c \in {"?", ":", "$", ","} THEN rest
             ELSE <<c>> \o rest

secure_filename(filename) ==
    rstripChars(lstripChars(sanitize(strip(filename)), {".", "_"}), {".", "_"})

\* str.endswith
endswith(s, e) ==
    Len(s) >= Len(e) /\ SubSeq(s, Len(s) - Len(e) + 1, Len(s)) = e

IsLetter(c) == lowerChar(c) \in {"a", "d", "f", "h", "j", "l", "n", "o", "p", "s", "t", "x"}

\* urlparse(url).scheme: the letters before the first ":", lower-cased
urlScheme(url) ==
    LET i == find(url, {":"})
    IN  IF i > 1 /\ \A k \in 1..(i - 1) : IsLetter(url[k])
        THEN lower(SubSeq(url, 1, i - 1)) ELSE <<>>

\* url_value.split("?", 1)[0]
beforeQuery(url) ==
    LET i == find(url, {"?"})
    IN  IF i = 0 THEN url ELSE SubSeq(url, 1, i - 1)

(***************************************************************************)
(* The /generate handler                                                   *)
(***************************************************************************)
Xlsx == <<".", "x", "l", "s", "x">>
Pdf == <<".", "p", "d", "f">>
Json == <<".", "j", "s", "o", "n">>

\* workbook, template_pdf, mapping_json, coords_json
Inputs == 1..4

allowed_exts(i) == IF i = 1 THEN {Xlsx} ELSE IF i = 2 THEN {Pdf} ELSE {Json}

\* the suffix of the dest_path argument
destSuffix(i) == IF i = 1 THEN Xlsx ELSE IF i = 2 THEN Pdf ELSE Json

required(i) == i \in {1, 2}

Unset == <<"unset">>

\* DEFAULT_MAPPING_PATH, DEFAULT_COORDS_PATH
DefaultPath == <<"default">>

Filenames ==
    { <<>>,
      <<"a", ".", "x", "l", "s", "x">>,
      <<"A", ".", "P", "D", "F">>,
      <<"a", ".", "j", "s", "o", "n">>,
      <<"a">>,
      <<".", "p", "d", "f">> }

Urls ==
    { <<>>,
      <<"h", "t", "t", "p", ":", "/", "/", "h", "/", "a", ".", "x", "l", "s", "x">>,
      <<"H", "T", "T", "P", "S", ":", "/", "/", "h", "/", "A", ".", "P", "D", "F", "?", "x", "=", ".", "j", "s", "o", "n">>,
      <<"h", "t", "t", "p", ":", "/", "/", "h", "/", "a", ".", "j", "s", "o", "n">>,
      <<"h", "t", "t", "p", "s", ":", "/", "/", "h", "/", "a">>,
      <<"f", "t", "p", ":", "/", "/", "h", "/", "a", ".", "p", "d", "f">>,
      <<"f", "i", "l", "e", ":", "/", "/", "/", "a", ".", "j", "s", "o", "n">> }

\* (mutant of uploadRejected: the extension of an upload is not checked)
uploadRejectedNever(i, filename) == FALSE

\* lines 126-132: the suffix the destination gets from the upload is not
\* in allowed_exts
uploadRejected(i, filename) ==
    LET original == secure_filename(filename)
        suffix == IF original # <<>> THEN nameSuffix(original) ELSE <<>>
        dest == IF suffix # <<>> THEN suffix ELSE destSuffix(i)
    IN  lower(dest) \notin allowed_exts(i)

uploadSuffix(i, filename) ==
    LET original == secure_filename(filename)
        suffix == IF original # <<>> THEN nameSuffix(original) ELSE <<>>
    IN  IF suffix # <<>> THEN suffix ELSE destSuffix(i)

\* (mutant of urlRejected: any scheme is downloaded)
urlRejectedByExtensionOnly(i, url) ==
    LET clean_url == lower(beforeQuery(url))
    IN  /\ pathSuffix(clean_url) # <<>>
        /\ ~\E ext \in allowed_exts(i) : endswith(clean_url, ext)

\* lines 137-146: the scheme is not http(s), or the URL has a suffix and
\* does not end with an allowed extension
urlRejected(i, url) ==
    LET clean_url == lower(beforeQuery(url))
    IN  \/ urlScheme(url) \notin {<<"h", "t", "t", "p">>, <<"h", "t", "t", "p", "s">>}
        \/ /\ pathSuffix(clean_url) # <<>>
           /\ ~\E ext \in allowed_exts(i) : endswith(clean_url, ext)

\* (mutant of overCap: the streamed bytes are not counted against the cap)
overCapNever(n) == FALSE

\* "> MAX_DOWNLOAD_BYTES", of the declared length and of the running total
overCap(n) == n > MAX_DOWNLOAD_BYTES

\* (mutant of chunkWritten: handle.write(chunk) placed before the check)
chunkWrittenBeforeCheck(total, n) == n

\* the bytes one iteration of the read loop hands to handle.write, total
\* being the running total with the chunk of n bytes counted in: the check
\* of lines 171-175 raises before the write of line 176
chunkWritten(total, n) == IF overCap(total) THEN 0 ELSE n

AppInit ==
    /\ app_pc = "save"
    /\ app_input = 0
    /\ app_upload = <<>>
    /\ app_url = <<>>
    /\ paths = [i \in Inputs |-> Unset]
    /\ status = 0
    /\ generate_called = FALSE
    /\ dl_declared = -1
    /\ dl_total = 0
    /\ dl_written = 0

\* return _render_error(str(exc))
RenderError ==
    /\ app_pc' = "done"
    /\ status' = 400

\* the call returned dest_path: on to the next input, or to generation
Saved(i, suffix) ==
    /\ paths' = [paths EXCEPT ![i] = suffix]
    /\ app_pc' = IF i < 4 THEN "save" ELSE "generate"
    /\ UNCHANGED status

\* _save_upload_or_url for the next input, with an uploaded file
\* (lines 125-134); a URL given beside the file is not looked at
SaveUpload ==
    /\ app_pc = "save"
    /\ app_input' = app_input + 1
    /\ \E filename \in Filenames \ {<<>>}, url \in Urls :
          /\ app_upload' = filename
          /\ app_url' = url
          /\ IF uploadRejected(app_input + 1, filename)
             THEN RenderError /\ UNCHANGED paths
             ELSE Saved(app_input + 1, uploadSuffix(app_input + 1, filename))
    /\ UNCHANGED <<generate_called, dl_declared, dl_total, dl_written>>
    /\ UNCHANGED notApp

\* _save_upload_or_url for the next input, with a URL and no file, up to
\* the _download_url call (lines 136-147)
SaveUrl ==
    /\ app_pc = "save"
    /\ app_input' = app_input + 1
    /\ \E url \in Urls \ {<<>>} :
          /\ app_upload' = <<>>
          /\ app_url' = url
          /\ IF urlRejected(app_input + 1, url)
             THEN RenderError
             ELSE app_pc' = "download" /\ UNCHANGED status
    /\ dl_declared' = -1
    /\ dl_total' = 0
    /\ dl_written' = 0
    /\ UNCHANGED <<paths, generate_called>>
    /\ UNCHANGED notApp

\* neither a file nor a URL: an error for the workbook and the template
\* (lines 150-151), the default path for mapping and coordinates (lines
\* 80-81, 95-96)
SaveNothing ==
    /\ app_pc = "save"
    /\ app_input' = app_input + 1
    /\ app_upload' = <<>>
    /\ app_url' = <<>>
    /\ IF required(app_input + 1)
       THEN RenderError /\ UNCHANGED paths
       ELSE Saved(app_input + 1, DefaultPath)
    /\ UNCHANGED <<generate_called, dl_declared, dl_total, dl_written>>
    /\ UNCHANGED notApp

\* urlopen fails with URLError: ValueError("Failed to download file")
DownloadUrlError ==
    /\ app_pc = "download"
    /\ RenderError
    /\ UNCHANGED <<app_input, app_upload, app_url, paths, generate_called,
                   dl_declared, dl_total, dl_written>>
    /\ UNCHANGED notApp

\* urlopen returns the response; its Content-Length (-1: no such header)
\* is read and checked, and dest_path is opened (lines 159-166)
DownloadOpen ==
    /\ app_pc = "download"
    /\ \E length \in -1..(MAX_DOWNLOAD_BYTES + ReadSize) :
          /\ dl_declared' = length
          /\ IF length # -1 /\ overCap(length)
             THEN RenderError
             ELSE app_pc' = "reading" /\ UNCHANGED status
    /\ UNCHANGED <<app_input, app_upload, app_url, paths, generate_called,
                   dl_total, dl_written>>
    /\ UNCHANGED notApp

\* one iteration of the read loop with a chunk (lines 168-176); the
\* response hands out no more than the declared length
DownloadChunk ==
    /\ app_pc = "reading"
    /\ \E n \in 1..ReadSize :
          /\ dl_declared = -1 \/ dl_total + n <= dl_declared
          /\ dl_total' = dl_total + n
          /\ dl_written' = dl_written + chunkWritten(dl_total + n, n)
          /\ IF overCap(dl_total + n)
             THEN RenderError
             ELSE UNCHANGED <<app_pc, status>>
    /\ UNCHANGED <<app_input, app_upload, app_url, paths, generate_called,
                   dl_declared>>
    /\ UNCHANGED notApp

\* the read returns no chunk: _download_url and _save_upload_or_url return
DownloadEnd ==
    /\ app_pc = "reading"
    /\ Saved(app_input, destSuffix(app_input))
    /\ UNCHANGED <<app_input, app_upload, app_url, generate_called,
                   dl_declared, dl_total, dl_written>>
    /\ UNCHANGED notApp

\* a read fails with an exception that is no URLError (a timeout, a
\* broken connection): the handler does not catch it
DownloadBreaks ==
    /\ app_pc = "reading"
    /\ app_pc' = "done"
    /\ status' = 500
    /\ UNCHANGED <<app_input, app_upload, app_url, paths, generate_called,
                   dl_declared, dl_total, dl_written>>
    /\ UNCHANGED notApp

\* generate_proposal_pdf(...) and the response: the PDF, or the error of
\* a generation that raised (lines 98-114)
Generate ==
    /\ app_pc = "generate"
    /\ generate_called' = TRUE
    /\ app_pc' = "done"
    /\ status' \in {200, 500}
    /\ UNCHANGED <<app_input, app_upload, app_url, paths, dl_declared,
                   dl_total, dl_written>>
    /\ UNCHANGED notApp

AppOff ==
    /\ app_pc = "off" /\ app_input = 0 /\ app_upload = <<>> /\ app_url = <<>>
    /\ paths = <<>> /\ status = 0 /\ generate_called = FALSE
    /\ dl_declared = -1 /\ dl_total = 0 /\ dl_written = 0

(***************************************************************************)
(* Specifications                                                          *)
(***************************************************************************)
FitNext == FitText

InitFit == FitInit /\ CurOff /\ FldOff /\ GenOff /\ AppOff

SpecFit == InitFit /\ [][FitNext]_vars

CurNext == FormatCurrency

InitCurrency == CurInit /\ FitOff /\ FldOff /\ GenOff /\ AppOff

SpecCurrency == InitCurrency /\ [][CurNext]_vars

FldNext ==
    \/ LoadWorkbook
    \/ ReadField
    \/ CloseWorkbook
    \/ FormatField
    \/ ReturnFormatted

InitFields == FldInit /\ FitOff /\ CurOff /\ GenOff /\ AppOff

SpecFields == InitFields /\ [][FldNext]_vars

GenNext ==
    \/ DerivePlanSetDateLine
    \/ ProcessPage
    \/ EndPageLoop
    \/ WriteOutput

InitGenerate == GenInit /\ FitOff /\ CurOff /\ FldOff /\ AppOff

SpecGenerate == InitGenerate /\ [][GenNext]_vars

AppNext ==
    \/ SaveUpload
    \/ SaveUrl
    \/ SaveNothing
    \/ DownloadUrlError
    \/ DownloadOpen
    \/ DownloadChunk
    \/ DownloadEnd
    \/ DownloadBreaks
    \/ Generate

InitApp == AppInit /\ FitOff /\ CurOff /\ FldOff /\ GenOff

SpecApp == InitApp /\ [][AppNext]_vars

(***************************************************************************)
(* Claims about _fit_text                                                  *)
(***************************************************************************)
FitReturned == fit_pc = "returned" /\ value # <<>> /\ max_width > 0

ResultWidth == stringWidth(fit_result.text, font, fit_result.size)

EllipsisTooWide == stringWidth(ellipsis, font, min_size) > max_width

\* C1 as claimed: for every non-empty text and every max_width > 0 the
\* returned text measures at most max_width at the returned size, also when
\* the ellipsis alone is wider than max_width at min_size.
C1_AlwaysWithinMaxWidth == FitReturned => ResultWidth <= max_width

\* C1 as amended: the returned text measures at most max_width at the
\* returned size, except when the ellipsis alone is wider than max_width at
\* min_size and the full text fitted at no size tried; the call then
\* returns the bare ellipsis at min_size.
C1_WithinMaxWidthUnlessEllipsisTooWide ==
    FitReturned =>
        \/ ResultWidth <= max_width
        \/ /\ EllipsisTooWide
           /\ fit_result = [text |-> ellipsis, size |-> min_size]

\* A call that truncated: a prefix of the text plus the ellipsis, fitting.
C1_Witness ==
    /\ FitReturned
    /\ fit_result.text # value
    /\ Len(fit_result.text) > Len(ellipsis)
    /\ ResultWidth <= max_width

\* C8 as claimed: a text that fits at start_size is returned unchanged at
\* start_size, for every min_size (also min_size > start_size), and fitting
\* the result again returns the same result.
C8_ShortTextUnchanged ==
    (FitReturned /\ stringWidth(value, font, size) <= max_width) =>
        /\ fit_result = [text |-> value, size |-> size]
        /\ _fit_text(fit_result.text, font, fit_result.size,
                     max_width, min_size) = fit_result

\* The sizes start_size, start_size - 0.5, ... not below min_size.
StepSizes == {q \in min_size..size : (size - q) % 2 = 0}

\* C10 as claimed: when the full text fits at min_size the full text is
\* returned, at the largest of the sizes start_size, start_size - 0.5, ...,
\* min_size at which it fits; an ellipsis is returned only when the full
\* text is wider than max_width at min_size.
C10_TruncatesOnlyWhenMinSizeTooWide ==
    (FitReturned /\ stringWidth(value, font, min_size) <= max_width) =>
        /\ fit_result.text = value
        /\ fit_result.size \in StepSizes
        /\ stringWidth(value, font, fit_result.size) <= max_width
        /\ \A q \in StepSizes :
              q > fit_result.size => stringWidth(value, font, q) > max_width

(***************************************************************************)
(* Claims about _format_currency                                           *)
(***************************************************************************)
\* The amount rounded half-up to cents, computed on integers: the cents of
\* the magnitude, ties going up.
RoundedCents(a) == (1000 * a.whole + a.frac + 5) \div 10

ExpectedCurrency(a) ==
    <<"$">> \o signStr(a.neg) \o withCommas(RoundedCents(a) \div 100)
        \o <<".">> \o ZeroPad(NatStr(RoundedCents(a) % 100), 2)

Formatted(r) == cur_out[r] # Pending

\* C7: every representation of an amount (the number, the plain decimal
\* string, the string decorated with "$" and ",") formats to the same
\* output: "$", the sign of a negative amount, the thousands-grouped whole
\* part and the two fraction digits of the magnitude rounded half-up;
\* 1234.5 in every representation gives "$1,234.50", 2.005 gives "$2.01".
C7_CurrencyIndependentOfRepresentation ==
    /\ \A r \in DOMAIN cur_out :
          Formatted(r) => cur_out[r] = Returned(ExpectedCurrency(cur_amount))
    /\ \A r \in DOMAIN cur_out :
          (Formatted(r) /\ cur_amount = [neg |-> FALSE, whole |-> 1234, frac |-> 500])
              => cur_out[r].s = <<"$", "1", ",", "2", "3", "4", ".", "5", "0">>
    /\ \A r \in DOMAIN cur_out :
          (Formatted(r) /\ cur_amount = [neg |-> FALSE, whole |-> 2, frac |-> 5])
              => cur_out[r].s = <<"$", "2", ".", "0", "1">>

\* An amount of millions whose thousandths are a tie, formatted from all
\* four representations.
C7_Witness ==
    /\ cur_i > Len(Representations)
    /\ cur_amount.whole >= 1000
    /\ cur_amount.frac % 10 = 5
    /\ \A r \in DOMAIN cur_out : Formatted(r) /\ ~cur_out[r].raised

(***************************************************************************)
(* Claims about _build_field_values and _read_excel_values                 *)
(***************************************************************************)
\* C2: building the field value map never aborts because of one cell:
\* for every field spec and every raw cell value _read_excel_values and
\* _format_value complete without raising, and every field maps to a string.
C2_NeverAbortsOnACell ==
    /\ fld_pc \notin {"read_raised", "format_raised"}
    /\ fld_pc = "done" => Len(formatted) = Len(field_specs)

\* C6: once _read_excel_values has exited, by return or by exception, the
\* workbook it opened is closed.
C6_WorkbookClosedOnExit ==
    fld_pc \in {"format", "done", "read_raised", "format_raised"} => ~wb_open

(***************************************************************************)
(* Claims about generate_proposal_pdf                                      *)
(***************************************************************************)
\* C3: at every step of the page loop the writer holds template pages
\* 1..k in order, k the number of pages processed, each once; after the
\* loop it holds exactly the template's pages, with or without overlays.
C3_PagesInTemplateOrder ==
    gen_pc \in {"loop", "write", "done", "raised"} =>
        /\ Len(writer_pages) = page_index - 1
        /\ \A k \in 1..Len(writer_pages) : writer_pages[k].page = k
        /\ gen_pc \in {"write", "done"} => Len(writer_pages) = num_pages

\* A finished run over the largest template, overlays on some pages only.
C3_Witness ==
    /\ gen_pc = "done"
    /\ Len(writer_pages) = MaxPages
    /\ \E k \in 1..MaxPages : writer_pages[k].merged
    /\ \E k \in 1..MaxPages : ~writer_pages[k].merged

\* C4: a page whose key "page_<i>" is missing from the coordinates config
\* is emitted without an overlay and raises nothing; an overlay is merged
\* only onto a page whose key is present.
C4_NoKeyNoOverlay ==
    /\ \A k \in 1..Len(writer_pages) :
          /\ ~coords_config[writer_pages[k].page].present
                => writer_pages[k] = Unmerged(writer_pages[k].page)
          /\ writer_pages[k].merged
                => coords_config[writer_pages[k].page].present
    /\ gen_pc = "raised" => coords_config[page_index].present

\* A finished run in which a page without key passed through and a page
\* with key got text drawn on it.
C4_Witness ==
    /\ gen_pc = "done"
    /\ \E k \in 1..Len(writer_pages) :
          /\ ~coords_config[k].present
          /\ writer_pages[k] = Unmerged(k)
    /\ \E k \in 1..Len(writer_pages) :
          /\ coords_config[k].present
          /\ writer_pages[k].merged
          /\ writer_pages[k].drawn # <<>>

(***************************************************************************)
(* Claims about the /generate handler                                      *)
(***************************************************************************)
Rejected == app_pc = "done" /\ status = 400 /\ ~generate_called

\* C5: a download whose declared Content-Length or whose streamed byte
\* count exceeds MAX_DOWNLOAD_BYTES, for any of the four inputs, ends the
\* request with status 400, and generate_proposal_pdf is not called in it.
C5_OversizedDownloadRejected ==
    (dl_declared > MAX_DOWNLOAD_BYTES \/ dl_total > MAX_DOWNLOAD_BYTES)
        => Rejected

\* The coordinates download, without Content-Length, streamed past the cap
\* after chunks were written.
C5_Witness ==
    /\ app_input = 4
    /\ dl_declared = -1
    /\ dl_total > MAX_DOWNLOAD_BYTES
    /\ dl_written > 0
    /\ Rejected

\* the text carries one of the input's extensions (compared in lower case)
carriesAllowed(i, text) == \E ext \in allowed_exts(i) : endswith(lower(text), ext)

httpScheme(url) ==
    \/ SubSeq(lower(url), 1, 7) = <<"h", "t", "t", "p", ":", "/", "/">>
    \/ SubSeq(lower(url), 1, 8) = <<"h", "t", "t", "p", "s", ":", "/", "/">>

\* C9 as claimed: an upload whose file name, or a URL whose path, does not
\* carry an extension of the input's allow-list (a name or URL without any
\* extension included), or a URL whose scheme is not http(s), ends the
\* request with status 400 and generate_proposal_pdf is not called.
C9_AllowListEnforced ==
    ( \/ app_upload # <<>> /\ ~carriesAllowed(app_input, app_upload)
      \/ /\ app_upload = <<>> /\ app_url # <<>>
         /\ \/ ~httpScheme(app_url)
            \/ ~carriesAllowed(app_input, beforeQuery(app_url)) )
        => /\ ~generate_called
           /\ app_pc = "done" => status = 400

\* C9 as amended: an upload whose sanitized file name has an extension
\* that is not in the input's allow-list, and, when no file is uploaded,
\* a URL whose scheme is not http(s) or whose text before "?" has an
\* extension and does not end with an allowed one, end the request with
\* status 400 and generate_proposal_pdf is not called.
C9_WrongExtensionOrSchemeRejected ==
    ( \/ /\ app_upload # <<>>
         /\ nameSuffix(secure_filename(app_upload)) # <<>>
         /\ ~carriesAllowed(app_input, secure_filename(app_upload))
      \/ /\ app_upload = <<>> /\ app_url # <<>>
         /\ \/ ~httpScheme(app_url)
            \/ /\ pathSuffix(lower(beforeQuery(app_url))) # <<>>
               /\ ~carriesAllowed(app_input, beforeQuery(app_url)) )
        => Rejected

\* The mapping override uploaded as a PDF, after the workbook and the
\* template were accepted.
C9_Witness ==
    /\ app_input = 3
    /\ app_upload = <<"A", ".", "P", "D", "F">>
    /\ paths[1] # Unset /\ paths[2] # Unset
    /\ Rejected

\* C11: in every state of a download the bytes written to the destination
\* file are at most MAX_DOWNLOAD_BYTES and at most the bytes counted; once
\* the running total has crossed the cap, the chunk that crossed it is not
\* written and the download has ended with the ValueError, which the
\* handler turns into the error response.
C11_WrittenWithinCap ==
    /\ dl_written <= MAX_DOWNLOAD_BYTES
    /\ dl_written <= dl_total
    /\ overCap(dl_total) => /\ dl_written < dl_total
                            /\ dl_total - dl_written <= ReadSize
                            /\ app_pc = "done" /\ status = 400

\* The workbook download filled the file up to the cap exactly, and one
\* more chunk arrived.
C11_Witness ==
    /\ app_input = 1
    /\ dl_written = MAX_DOWNLOAD_BYTES
    /\ overCap(dl_total)
    /\ app_pc = "done" /\ status = 400

====
